---------------------------- MODULE Spec2Model ----------------------------
(***************************************************************************)
(* authorsync: the identity matcher (matcher.js, whose text is carried in  *)
(* src/tests/scanner.test.js lines 299-584).                               *)
(*                                                                         *)
(* Strings are sequences of one-character strings.  JavaScript numbers are *)
(* modelled as exact rationals <<numerator, denominator>> in lowest terms  *)
(* with a positive denominator; the thresholds used below are chosen away  *)
(* from values where IEEE rounding of a product could change a comparison. *)
(***************************************************************************)
EXTENDS Integers, Sequences, FiniteSets, TLC

VARIABLES pc, name1, name2, similarity, email1, email2, verdict,
          localPart, domainPart, authors, minConfidence, clusters,
          content, mappings, stats, totalAuthorsBefore, selected, repo,
          thrown, distance, opts, mailmapFile, existingMailmap, console,
          exitCode

vars == <<pc, name1, name2, similarity, email1, email2, verdict,
          localPart, domainPart, authors, minConfidence, clusters,
          content, mappings, stats, totalAuthorsBefore, selected, repo,
          thrown, distance, opts, mailmapFile, existingMailmap, console,
          exitCode>>

\* the matcher's inputs and results
matcherVars == <<name1, name2, similarity, email1, email2, verdict,
                 localPart, domainPart, authors, minConfidence, clusters>>

\* the scanner's and the report generator's inputs and results
\* the command line's options, the .mailmap file, the copy read at the
\* start of the command, the printed lines and the exit code
cliVars == <<opts, mailmapFile, existingMailmap, console, exitCode>>

reportVars == <<content, mappings, stats, totalAuthorsBefore, selected, repo,
               thrown, distance, cliVars>>

(***************************************************************************)
(* Bounds of the explored inputs.                                          *)
(***************************************************************************)
MaxNameLen == 3
MaxAuthors == 4
MaxCommits == 2
MaxTokens == 4
MaxLog == 3
MaxDistinct == 3

(***************************************************************************)
(* Rational arithmetic for JavaScript numbers.                             *)
(***************************************************************************)
Abs(x) == IF x < 0 THEN -x ELSE x

RECURSIVE Gcd(_, _)
Gcd(a, b) == IF b = 0 THEN a ELSE Gcd(b, a % b)

Rat(n, d) == LET g == Gcd(Abs(n), d) IN <<n \div g, d \div g>>

RMul(x, y) == Rat(x[1] * y[1], x[2] * y[2])
RAdd(x, y) == Rat(x[1] * y[2] + y[1] * x[2], x[2] * y[2])
RSub(x, y) == Rat(x[1] * y[2] - y[1] * x[2], x[2] * y[2])
RLt(x, y) == x[1] * y[2] < y[1] * x[2]
RLeq(x, y) == x[1] * y[2] <= y[1] * x[2]
Zero == Rat(0, 1)
One == Rat(1, 1)

(***************************************************************************)
(* Characters and the string methods the matcher uses.                     *)
(***************************************************************************)
UpperCase == <<"A","B","C","D","E","F","G","H","I","J","K","L","M",
               "N","O","P","Q","R","S","T","U","V","W","X","Y","Z">>
LowerCase == <<"a","b","c","d","e","f","g","h","i","j","k","l","m",
               "n","o","p","q","r","s","t","u","v","w","x","y","z">>
Digits == {"0","1","2","3","4","5","6","7","8","9"}

Range(s) == {s[k] : k \in 1..Len(s)}

UpperCaseChars == Range(UpperCase)
AlnumChars == Range(LowerCase) \cup Digits
LowerOf == [c \in UpperCaseChars |->
              LowerCase[CHOOSE k \in 1..26 : UpperCase[k] = c]]

\* String.prototype.toLowerCase on one character
lowerChar(c) == IF c \in UpperCaseChars THEN LowerOf[c] ELSE c

\* String.prototype.toLowerCase
toLowerCase(s) == [k \in 1..Len(s) |-> lowerChar(s[k])]

\* String.prototype.includes: t occurs in s as a contiguous substring
includes(s, t) ==
  \E k \in 0..(Len(s) - Len(t)) : SubSeq(s, k + 1, k + Len(t)) = t

\* position of the first occurrence of character c in s, 0 if none
indexOfChar(s, c) ==
  IF c \in Range(s) THEN CHOOSE k \in 1..Len(s) :
                           s[k] = c /\ \A m \in 1..(k - 1) : s[m] # c
  ELSE 0

\* String.prototype.split on a one-character separator
RECURSIVE split(_, _)
split(s, sep) ==
  LET k == indexOfChar(s, sep)
  IN IF k = 0 THEN <<s>>
     ELSE <<SubSeq(s, 1, k - 1)>> \o split(SubSeq(s, k + 1, Len(s)), sep)

\* the white space characters (\s) that occur in the modelled texts; the
\* line feed is listed although split('\n') leaves none inside a line
WhiteSpace == {" ", "\t", "\n"}

\* String.prototype.trim
RECURSIVE trim(_)
trim(s) ==
  IF s = <<>> THEN s
  ELSE IF Head(s) \in WhiteSpace THEN trim(Tail(s))
  ELSE IF s[Len(s)] \in WhiteSpace THEN trim(SubSeq(s, 1, Len(s) - 1))
  ELSE s

\* replace(/\s+/g, ' '): every run of spaces becomes one space
RECURSIVE collapseSpaces(_)
collapseSpaces(s) ==
  IF Len(s) < 2 THEN s
  ELSE IF s[1] = " " /\ s[2] = " " THEN collapseSpaces(Tail(s))
  ELSE <<s[1]>> \o collapseSpaces(Tail(s))

\* replace(/[^a-z0-9]/g, ' ')
replaceNonAlnum(s) ==
  [k \in 1..Len(s) |->
     IF s[k] \in AlnumChars THEN s[k] ELSE " "]

normalizeName(name) ==
  trim(collapseSpaces(replaceNonAlnum(toLowerCase(name))))

Max(x, y) == IF x >= y THEN x ELSE y
Min3(x, y, z) == IF x <= y /\ x <= z THEN x ELSE IF y <= z THEN y ELSE z

\* levenshtein without the substitution term of Math.min
levenshteinNoSubstitution(a, b) ==
  IF Len(a) = 0 THEN Len(b)
  ELSE IF Len(b) = 0 THEN Len(a)
  ELSE
    LET matrix[i \in 0..Len(b), j \in 0..Len(a)] ==
          IF i = 0 THEN j
          ELSE IF j = 0 THEN i
          ELSE IF b[i] = a[j] THEN matrix[i - 1, j - 1]
          ELSE Min3(matrix[i, j - 1] + 1,
                    matrix[i, j - 1] + 1,
                    matrix[i - 1, j] + 1)
    IN matrix[Len(b), Len(a)]

\* levenshtein with a substitution charged 2 instead of 1
levenshteinSubst2(a, b) ==
  IF Len(a) = 0 THEN Len(b)
  ELSE IF Len(b) = 0 THEN Len(a)
  ELSE
    LET matrix[i \in 0..Len(b), j \in 0..Len(a)] ==
          IF i = 0 THEN j
          ELSE IF j = 0 THEN i
          ELSE IF b[i] = a[j] THEN matrix[i - 1, j - 1]
          ELSE Min3(matrix[i - 1, j - 1] + 2,
                    matrix[i, j - 1] + 2,
                    matrix[i - 1, j] + 2)
    IN matrix[Len(b), Len(a)]

\* the dynamic-programming table of levenshtein: matrix[i][j] for the first
\* i characters of b and the first j characters of a
levenshtein(a, b) ==
  IF Len(a) = 0 THEN Len(b)
  ELSE IF Len(b) = 0 THEN Len(a)
  ELSE
    LET matrix[i \in 0..Len(b), j \in 0..Len(a)] ==
          IF i = 0 THEN j
          ELSE IF j = 0 THEN i
          ELSE IF b[i] = a[j] THEN matrix[i - 1, j - 1]
          ELSE Min3(matrix[i - 1, j - 1] + 1,
                    matrix[i, j - 1] + 1,
                    matrix[i - 1, j] + 1)
    IN matrix[Len(b), Len(a)]

\* intersection.length / union.size over the word sets of two normalized names
jaccardSim(n1, n2) ==
  LET words1 == Range(split(n1, " "))
      words2 == Range(split(n2, " "))
  IN Rat(Cardinality(words1 \cap words2), Cardinality(words1 \cup words2))

nameSimilarity(n1raw, n2raw) ==
  LET n1 == normalizeName(n1raw)
      n2 == normalizeName(n2raw)
  IN IF n1 = n2 THEN One
     ELSE IF n1 = <<>> \/ n2 = <<>> THEN Zero
     ELSE IF includes(n1, n2) \/ includes(n2, n1) THEN Rat(9, 10)
     ELSE IF RLt(Rat(1, 2), jaccardSim(n1, n2))
          THEN RAdd(Rat(7, 10), RMul(jaccardSim(n1, n2), Rat(2, 10)))
     ELSE RSub(One, Rat(levenshtein(n1, n2), Max(Len(n1), Len(n2))))

(***************************************************************************)
(* Email helpers and the email matcher.                                    *)
(***************************************************************************)
emailLocal(email) == toLowerCase(split(email, "@")[1])

\* parts[1] of the split, or '' when it is undefined or empty
emailDomain(email) ==
  LET parts == split(email, "@")
  IN IF Len(parts) >= 2 /\ parts[2] # <<>> THEN toLowerCase(parts[2]) ELSE <<>>

GithubSuffix == <<"@","u","s","e","r","s",".","n","o","r","e","p","l","y",
                  ".","g","i","t","h","u","b",".","c","o","m">>

\* number of leading digits of s
RECURSIVE leadingDigits(_)
leadingDigits(s) ==
  IF s # <<>> /\ Head(s) \in Digits THEN 1 + leadingDigits(Tail(s)) ELSE 0

\* e.match(/^(\d+\+)?([^@]+)@users\.noreply\.github\.com$/): whether it
\* matches, and capture group 2.  The optional group takes a maximal run of
\* digits followed by '+', unless nothing would be left for group 2.
ghMatch(e) ==
  LET n == Len(e) - Len(GithubSuffix)
      p == SubSeq(e, 1, n)
      d == leadingDigits(p)
  IN IF n < 1 \/ SubSeq(e, n + 1, Len(e)) # GithubSuffix \/ "@" \in Range(p)
     THEN [matched |-> FALSE, username |-> <<>>]
     ELSE IF d >= 1 /\ d + 1 < n /\ p[d + 1] = "+"
     THEN [matched |-> TRUE, username |-> SubSeq(p, d + 2, n)]
     ELSE [matched |-> TRUE, username |-> p]

Verdict(m, c, r) == [match |-> m, confidence |-> c, reason |-> r]

\* emailsMatch with the noreply-versus-local-part rule tried before the
\* same-local-part rule
emailsMatchNoreplyFirst(em1, em2) ==
  LET e1 == toLowerCase(em1)
      e2 == toLowerCase(em2)
      local1 == emailLocal(e1)
      local2 == emailLocal(e2)
      ghMatch1 == ghMatch(e1)
      ghMatch2 == ghMatch(e2)
  IN IF e1 = e2 THEN Verdict(TRUE, One, "exact-email")
     ELSE IF ghMatch1.matched /\ local2 = ghMatch1.username
          THEN Verdict(TRUE, Rat(7, 10), "github-noreply-match")
     ELSE IF ghMatch2.matched /\ local1 = ghMatch2.username
          THEN Verdict(TRUE, Rat(7, 10), "github-noreply-match")
     ELSE IF local1 = local2 /\ Len(local1) > 3
          THEN Verdict(TRUE, Rat(8, 10), "same-local-part")
     ELSE IF ghMatch1.matched /\ ghMatch2.matched
             /\ ghMatch1.username = ghMatch2.username
          THEN Verdict(TRUE, Rat(95, 100), "github-noreply-username")
     ELSE Verdict(FALSE, Zero, "")

\* emailsMatch without the second ordering of the noreply-versus-local rule
emailsMatchOneSided(em1, em2) ==
  LET e1 == toLowerCase(em1)
      e2 == toLowerCase(em2)
      local1 == emailLocal(e1)
      local2 == emailLocal(e2)
      ghMatch1 == ghMatch(e1)
      ghMatch2 == ghMatch(e2)
  IN IF e1 = e2 THEN Verdict(TRUE, One, "exact-email")
     ELSE IF local1 = local2 /\ Len(local1) > 3
          THEN Verdict(TRUE, Rat(8, 10), "same-local-part")
     ELSE IF ghMatch1.matched /\ ghMatch2.matched
             /\ ghMatch1.username = ghMatch2.username
          THEN Verdict(TRUE, Rat(95, 100), "github-noreply-username")
     ELSE IF ghMatch1.matched /\ local2 = ghMatch1.username
          THEN Verdict(TRUE, Rat(7, 10), "github-noreply-match")
     ELSE Verdict(FALSE, Zero, "")

emailsMatch(em1, em2) ==
  LET e1 == toLowerCase(em1)
      e2 == toLowerCase(em2)
      local1 == emailLocal(e1)
      local2 == emailLocal(e2)
      ghMatch1 == ghMatch(e1)
      ghMatch2 == ghMatch(e2)
  IN IF e1 = e2 THEN Verdict(TRUE, One, "exact-email")
     ELSE IF local1 = local2 /\ Len(local1) > 3
          THEN Verdict(TRUE, Rat(8, 10), "same-local-part")
     ELSE IF ghMatch1.matched /\ ghMatch2.matched
             /\ ghMatch1.username = ghMatch2.username
          THEN Verdict(TRUE, Rat(95, 100), "github-noreply-username")
     ELSE IF ghMatch1.matched /\ local2 = ghMatch1.username
          THEN Verdict(TRUE, Rat(7, 10), "github-noreply-match")
     ELSE IF ghMatch2.matched /\ local1 = ghMatch2.username
          THEN Verdict(TRUE, Rat(7, 10), "github-noreply-match")
     ELSE Verdict(FALSE, Zero, "")

(***************************************************************************)
(* The cluster builder.  An Author object is identified by its position in *)
(* the input list (a JavaScript object reference): clusters hold positions *)
(* and authors[p] is the record {name, email, commits} at position p.      *)
(***************************************************************************)
\* Array.prototype.sort with a comparator "key descending": a stable sort.
\* items[k] lands after every item with a larger key and after every
\* earlier item with an equal key.
stableSortDesc(items, keys) ==
  LET n == Len(items)
      rank(k) == 1 + Cardinality({m \in 1..n :
                        keys[m] > keys[k] \/ (keys[m] = keys[k] /\ m < k)})
  IN [q \in 1..n |-> items[CHOOSE k \in 1..n : rank(k) = q]]

\* the copy of the input without the sort
sortByCommitsUnsorted(as) == [k \in 1..Len(as) |-> k]

\* the sort with the comparator a.commits - b.commits (ascending)
sortByCommitsAscending(as) ==
  stableSortDesc([k \in 1..Len(as) |-> k], [k \in 1..Len(as) |-> 0 - as[k].commits])

\* [...authors].sort((a, b) => b.commits - a.commits), as input positions
sortByCommits(as) ==
  stableSortDesc([k \in 1..Len(as) |-> k], [k \in 1..Len(as) |-> as[k].commits])

\* pairConfidence with nameSim >= 0.8 instead of nameSim > 0.8
pairConfidenceInclusive(canonical, candidate) ==
  LET emailResult == emailsMatch(canonical.email, candidate.email)
      nameSim == nameSimilarity(canonical.name, candidate.name)
  IN IF emailResult.match
     THEN IF RLt(nameSim, Rat(3, 10))
          THEN [confidence |-> RMul(emailResult.confidence, Rat(6, 10)),
                reason |-> emailResult.reason \o "-name-mismatch"]
          ELSE [confidence |-> emailResult.confidence,
                reason |-> emailResult.reason]
     ELSE IF RLeq(Rat(8, 10), nameSim)
          THEN IF emailDomain(canonical.email) = emailDomain(candidate.email)
               THEN [confidence |-> RMul(nameSim, Rat(9, 10)),
                     reason |-> "similar-name-same-domain"]
               ELSE [confidence |-> RMul(nameSim, Rat(7, 10)),
                     reason |-> "similar-name"]
          ELSE [confidence |-> Zero, reason |-> ""]

\* pairConfidence with the name-mismatch discount 0.5 instead of 0.6
pairConfidenceDiscountHalf(canonical, candidate) ==
  LET emailResult == emailsMatch(canonical.email, candidate.email)
      nameSim == nameSimilarity(canonical.name, candidate.name)
  IN IF emailResult.match
     THEN IF RLt(nameSim, Rat(3, 10))
          THEN [confidence |-> RMul(emailResult.confidence, Rat(5, 10)),
                reason |-> emailResult.reason \o "-name-mismatch"]
          ELSE [confidence |-> emailResult.confidence,
                reason |-> emailResult.reason]
     ELSE IF RLt(Rat(8, 10), nameSim)
          THEN IF emailDomain(canonical.email) = emailDomain(candidate.email)
               THEN [confidence |-> RMul(nameSim, Rat(9, 10)),
                     reason |-> "similar-name-same-domain"]
               ELSE [confidence |-> RMul(nameSim, Rat(7, 10)),
                     reason |-> "similar-name"]
          ELSE [confidence |-> Zero, reason |-> ""]

\* the body of the inner loop before the threshold test: the confidence and
\* reason computed for a canonical and a candidate
pairConfidence(canonical, candidate) ==
  LET emailResult == emailsMatch(canonical.email, candidate.email)
      nameSim == nameSimilarity(canonical.name, candidate.name)
  IN IF emailResult.match
     THEN IF RLt(nameSim, Rat(3, 10))
          THEN [confidence |-> RMul(emailResult.confidence, Rat(6, 10)),
                reason |-> emailResult.reason \o "-name-mismatch"]
          ELSE [confidence |-> emailResult.confidence,
                reason |-> emailResult.reason]
     ELSE IF RLt(Rat(8, 10), nameSim)
          THEN IF emailDomain(canonical.email) = emailDomain(candidate.email)
               THEN [confidence |-> RMul(nameSim, Rat(9, 10)),
                     reason |-> "similar-name-same-domain"]
               ELSE [confidence |-> RMul(nameSim, Rat(7, 10)),
                     reason |-> "similar-name"]
          ELSE [confidence |-> Zero, reason |-> ""]

\* the inner loop without assigned.add(j): an alias stays available
RECURSIVE scanCandidatesNoMark(_, _, _, _, _, _, _, _)
scanCandidatesNoMark(as, sorted, i, j, assigned, aliases, clusterReason, minConf) ==
  IF j > Len(sorted)
  THEN [aliases |-> aliases, assigned |-> assigned, reason |-> clusterReason]
  ELSE IF j \in assigned
  THEN scanCandidatesNoMark(as, sorted, i, j + 1, assigned, aliases,
                            clusterReason, minConf)
  ELSE LET r == pairConfidence(as[sorted[i]], as[sorted[j]])
       IN IF RLeq(minConf, r.confidence)
          THEN scanCandidatesNoMark(as, sorted, i, j + 1, assigned,
                                    Append(aliases, sorted[j]),
                                    IF clusterReason = "" THEN r.reason
                                                          ELSE clusterReason,
                                    minConf)
          ELSE scanCandidatesNoMark(as, sorted, i, j + 1, assigned, aliases,
                                    clusterReason, minConf)

\* the inner loop with the operands of the threshold test swapped
\* (confidence <= minConfidence)
RECURSIVE scanCandidatesSwapped(_, _, _, _, _, _, _, _)
scanCandidatesSwapped(as, sorted, i, j, assigned, aliases, clusterReason, minConf) ==
  IF j > Len(sorted)
  THEN [aliases |-> aliases, assigned |-> assigned, reason |-> clusterReason]
  ELSE IF j \in assigned
  THEN scanCandidatesSwapped(as, sorted, i, j + 1, assigned, aliases,
                             clusterReason, minConf)
  ELSE LET r == pairConfidence(as[sorted[i]], as[sorted[j]])
       IN IF RLeq(r.confidence, minConf)
          THEN scanCandidatesSwapped(as, sorted, i, j + 1, assigned \cup {j},
                                     Append(aliases, sorted[j]),
                                     IF clusterReason = "" THEN r.reason
                                                           ELSE clusterReason,
                                     minConf)
          ELSE scanCandidatesSwapped(as, sorted, i, j + 1, assigned, aliases,
                                     clusterReason, minConf)

\* the inner loop recording the reason before the threshold test, so that
\* the reason of a rejected candidate can become the cluster reason
RECURSIVE scanCandidatesEagerReason(_, _, _, _, _, _, _, _)
scanCandidatesEagerReason(as, sorted, i, j, assigned, aliases, clusterReason, minConf) ==
  IF j > Len(sorted)
  THEN [aliases |-> aliases, assigned |-> assigned, reason |-> clusterReason]
  ELSE IF j \in assigned
  THEN scanCandidatesEagerReason(as, sorted, i, j + 1, assigned, aliases,
                                 clusterReason, minConf)
  ELSE LET r == pairConfidence(as[sorted[i]], as[sorted[j]])
           newReason == IF clusterReason = "" THEN r.reason ELSE clusterReason
       IN IF RLeq(minConf, r.confidence)
          THEN scanCandidatesEagerReason(as, sorted, i, j + 1,
                                         assigned \cup {j},
                                         Append(aliases, sorted[j]),
                                         newReason, minConf)
          ELSE scanCandidatesEagerReason(as, sorted, i, j + 1, assigned,
                                         aliases, newReason, minConf)

\* the inner loop with confidence > minConfidence instead of >=
RECURSIVE scanCandidatesStrict(_, _, _, _, _, _, _, _)
scanCandidatesStrict(as, sorted, i, j, assigned, aliases, clusterReason, minConf) ==
  IF j > Len(sorted)
  THEN [aliases |-> aliases, assigned |-> assigned, reason |-> clusterReason]
  ELSE IF j \in assigned
  THEN scanCandidatesStrict(as, sorted, i, j + 1, assigned, aliases,
                            clusterReason, minConf)
  ELSE LET r == pairConfidence(as[sorted[i]], as[sorted[j]])
       IN IF RLt(minConf, r.confidence)
          THEN scanCandidatesStrict(as, sorted, i, j + 1, assigned \cup {j},
                                    Append(aliases, sorted[j]),
                                    IF clusterReason = "" THEN r.reason
                                                          ELSE clusterReason,
                                    minConf)
          ELSE scanCandidatesStrict(as, sorted, i, j + 1, assigned, aliases,
                                    clusterReason, minConf)

\* the inner loop over j = from..sorted.length for the canonical at sorted
\* index i: the aliases pushed, the grown assigned set, the cluster reason
RECURSIVE scanCandidates(_, _, _, _, _, _, _, _)
scanCandidates(as, sorted, i, j, assigned, aliases, clusterReason, minConf) ==
  IF j > Len(sorted)
  THEN [aliases |-> aliases, assigned |-> assigned, reason |-> clusterReason]
  ELSE IF j \in assigned
  THEN scanCandidates(as, sorted, i, j + 1, assigned, aliases,
                      clusterReason, minConf)
  ELSE LET r == pairConfidence(as[sorted[i]], as[sorted[j]])
       IN IF RLeq(minConf, r.confidence)
          THEN scanCandidates(as, sorted, i, j + 1, assigned \cup {j},
                              Append(aliases, sorted[j]),
                              IF clusterReason = "" THEN r.reason
                                                    ELSE clusterReason,
                              minConf)
          ELSE scanCandidates(as, sorted, i, j + 1, assigned, aliases,
                              clusterReason, minConf)

\* Math.min over a non-empty list of numbers
RECURSIVE minOf(_)
minOf(xs) ==
  IF Len(xs) = 1 THEN xs[1]
  ELSE LET m == minOf(Tail(xs)) IN IF RLeq(xs[1], m) THEN xs[1] ELSE m

\* the confidence as the least pair confidence of the aliases
clusterConfidenceAggregate(as, canonical, aliases) ==
  minOf([k \in 1..Len(aliases) |->
           pairConfidence(as[canonical], as[aliases[k]]).confidence])

\* Math.min(...aliases.map(() => 0.8)) for the aliases of an emitted cluster
clusterConfidence(as, canonical, aliases) ==
  minOf([k \in 1..Len(aliases) |-> Rat(8, 10)])

\* the outer loop without the aliases.length > 0 test: every canonical
\* candidate is emitted
RECURSIVE buildClustersAlwaysEmit(_, _, _, _, _, _)
buildClustersAlwaysEmit(as, sorted, i, assigned, found, minConf) ==
  IF i > Len(sorted) THEN found
  ELSE IF i \in assigned
  THEN buildClustersAlwaysEmit(as, sorted, i + 1, assigned, found, minConf)
  ELSE LET s == scanCandidates(as, sorted, i, i + 1, assigned, <<>>, "",
                               minConf)
       IN buildClustersAlwaysEmit(as, sorted, i + 1, s.assigned \cup {i},
                                  Append(found,
                                         [canonical |-> sorted[i],
                                          aliases |-> s.aliases,
                                          confidence |-> Rat(8, 10),
                                          reason |-> s.reason]),
                                  minConf)

\* the outer loop over i: the clusters in the order they are pushed
RECURSIVE buildClusters(_, _, _, _, _, _)
buildClusters(as, sorted, i, assigned, found, minConf) ==
  IF i > Len(sorted) THEN found
  ELSE IF i \in assigned
  THEN buildClusters(as, sorted, i + 1, assigned, found, minConf)
  ELSE LET s == scanCandidates(as, sorted, i, i + 1, assigned, <<>>, "",
                               minConf)
       IN IF Len(s.aliases) > 0
          THEN buildClusters(as, sorted, i + 1, s.assigned \cup {i},
                             Append(found,
                                    [canonical |-> sorted[i],
                                     aliases |-> s.aliases,
                                     confidence |->
                                       clusterConfidence(as, sorted[i],
                                                         s.aliases),
                                     reason |-> s.reason]),
                             minConf)
          ELSE buildClusters(as, sorted, i + 1, s.assigned, found, minConf)

RECURSIVE sumCommits(_, _)
sumCommits(as, positions) ==
  IF positions = <<>> THEN 0
  ELSE as[Head(positions)].commits + sumCommits(as, Tail(positions))

\* canonical.commits + aliases.reduce((sum, al) => sum + al.commits, 0)
totalCommits(as, c) == as[c.canonical].commits + sumCommits(as, c.aliases)

\* the final sort comparing the canonicals' commits only
sortClustersByCanonical(as, found) ==
  stableSortDesc(found,
                 [k \in 1..Len(found) |-> as[found[k].canonical].commits])

\* clusters.sort((a, b) => total(b) - total(a))
sortClusters(as, found) ==
  stableSortDesc(found, [k \in 1..Len(found) |-> totalCommits(as, found[k])])

discoveredClusters(as, minConf) ==
  buildClusters(as, sortByCommits(as), 1, {}, <<>>, minConf)

findClusters(as, minConf) == sortClusters(as, discoveredClusters(as, minConf))

(***************************************************************************)
(* The mailmap parser (scanner.js).  A Map is a function from its keys to  *)
(* its values; set() on a present key replaces the value.                  *)
(***************************************************************************)
EmptyMap == [k \in {} |-> {}]

mapSet(m, key, value) ==
  [k \in DOMAIN m \cup {key} |-> IF k = key THEN value ELSE m[k]]

NoMatch == [matched |-> FALSE]

\* the text left after the longest leading run of white space (\s+)
RECURSIVE dropLeadingSpace(_)
dropLeadingSpace(s) ==
  IF s # <<>> /\ Head(s) \in WhiteSpace THEN dropLeadingSpace(Tail(s)) ELSE s

\* trimmed.match(/^([^<]+)?<([^>]+)>(?:\s+([^<]+)?<([^>]+)>)?$/): the groups
\* cannot cross a '<' (1, 3) or a '>' (2, 4), so every group ends at the
\* first such character; a group that did not take part is the empty string
mailmapMatch(t) ==
  LET p == indexOfChar(t, "<")
  IN IF p = 0 THEN NoMatch
     ELSE
       LET rest1 == SubSeq(t, p + 1, Len(t))
           q == indexOfChar(rest1, ">")
       IN IF q <= 1 THEN NoMatch
          ELSE
            LET g1 == SubSeq(t, 1, p - 1)
                g2 == SubSeq(rest1, 1, q - 1)
                r == SubSeq(rest1, q + 1, Len(rest1))
            IN IF r = <<>>
               THEN [matched |-> TRUE, canonicalName |-> g1,
                     canonicalEmail |-> g2, oldName |-> <<>>, oldEmail |-> <<>>]
               ELSE IF r[1] \notin WhiteSpace THEN NoMatch
               ELSE
                 LET p2 == indexOfChar(r, "<")
                     rest2 == SubSeq(r, p2 + 1, Len(r))
                     q2 == indexOfChar(rest2, ">")
                 IN IF p2 = 0 \/ q2 <= 1 \/ q2 # Len(rest2) THEN NoMatch
                    ELSE [matched |-> TRUE, canonicalName |-> g1,
                          canonicalEmail |-> g2,
                          oldName |-> dropLeadingSpace(SubSeq(r, 1, p2 - 1)),
                          oldEmail |-> SubSeq(rest2, 1, q2 - 1)]

\* a plausible slip: comment lines are parsed like any other line
parseLineKeepComments(mappings0, line) ==
  LET trimmed == trim(line)
      match == mailmapMatch(trimmed)
  IN IF trimmed = <<>> THEN mappings0
     ELSE IF ~match.matched THEN mappings0
     ELSE
       LET canon == [name |-> trim(match.canonicalName),
                     email |-> trim(match.canonicalEmail)]
       IN IF match.oldEmail # <<>>
          THEN mapSet(mappings0,
                      trim(match.oldName) \o <<"|">> \o trim(match.oldEmail),
                      canon)
          ELSE IF match.canonicalName # <<>>
          THEN mapSet(mappings0, <<"|">> \o trim(match.canonicalEmail), canon)
          ELSE mappings0

\* the body of the loop of parseMailmap for one line
parseLine(mappings0, line) ==
  LET trimmed == trim(line)
      match == mailmapMatch(trimmed)
  IN IF trimmed = <<>> \/ trimmed[1] = "#" THEN mappings0
     ELSE IF ~match.matched THEN mappings0
     ELSE
       LET canon == [name |-> trim(match.canonicalName),
                     email |-> trim(match.canonicalEmail)]
       IN IF match.oldEmail # <<>>
          THEN mapSet(mappings0,
                      trim(match.oldName) \o <<"|">> \o trim(match.oldEmail),
                      canon)
          ELSE IF match.canonicalName # <<>>
          THEN mapSet(mappings0, <<"|">> \o trim(match.canonicalEmail), canon)
          ELSE mappings0

RECURSIVE parseLines(_, _)
parseLines(mappings0, lines) ==
  IF lines = <<>> THEN mappings0
  ELSE parseLines(parseLine(mappings0, Head(lines)), Tail(lines))

parseMailmap(text) == parseLines(EmptyMap, split(text, "\n"))

(***************************************************************************)
(* The log scanner (scanner.js).  A repository is a record: its state      *)
(* ("repository" with at least one commit, "empty" without commits,        *)
(* "missing" for a path outside any repository, "broken" for any other     *)
(* failure of git), its commits, newest first, each with an author and a   *)
(* committer identity, and the includeCommitters option of the call.       *)
(***************************************************************************)
\* one line of git log --format="%aN|%aE"
logLine(identity) == identity.name \o <<"|">> \o identity.email

\* the output of git log: a line per commit for the author, followed with
\* the format '%aN|%aE%n%cN|%cE' by a line for the committer
RECURSIVE gitLog(_, _)
gitLog(commits, includeCommitters) ==
  IF commits = <<>> THEN <<>>
  ELSE logLine(Head(commits).author) \o <<"\n">>
         \o (IF includeCommitters
               THEN logLine(Head(commits).committer) \o <<"\n">>
               ELSE <<>>)
         \o gitLog(Tail(commits), includeCommitters)

isTruthy(s) == s # <<>>

\* counts.set(key, (counts.get(key) || 0) + 1) on a Map in insertion order
increment(counts, key) ==
  IF \E k \in 1..Len(counts) : counts[k].key = key
  THEN [k \in 1..Len(counts) |->
          IF counts[k].key = key
          THEN [key |-> key, commits |-> counts[k].commits + 1]
          ELSE counts[k]]
  ELSE Append(counts, [key |-> key, commits |-> 1])

\* the body of the counting loop: the first two fields of line.split('|')
countLine(counts, line) ==
  LET fields == split(line, "|")
      name == fields[1]
      email == IF Len(fields) >= 2 THEN fields[2] ELSE <<>>
  IN IF name = <<>> \/ email = <<>> THEN counts
     ELSE increment(counts, name \o <<"|">> \o email)

RECURSIVE countLines(_, _)
countLines(counts, lines) ==
  IF lines = <<>> THEN counts
  ELSE countLines(countLine(counts, Head(lines)), Tail(lines))

\* the records built from the keys, sorted by commits, most first
authorsOf(counts) ==
  LET unsorted == [k \in 1..Len(counts) |->
                     [name |-> split(counts[k].key, "|")[1],
                      email |-> split(counts[k].key, "|")[2],
                      commits |-> counts[k].commits]]
  IN stableSortDesc(unsorted, [k \in 1..Len(counts) |-> counts[k].commits])

NoError == "none"
NotAGitRepository == "Not a git repository"
GitError == "git error"

\* the result of scanAuthors: the list returned and the error thrown
scanAuthors(repository) ==
  IF repository.state = "missing"
  THEN [authors |-> <<>>, thrown |-> NotAGitRepository]
  ELSE IF repository.state = "empty"
  THEN [authors |-> <<>>, thrown |-> NoError]
  ELSE IF repository.state = "broken"
  THEN [authors |-> <<>>, thrown |-> GitError]
  ELSE
    LET output == gitLog(repository.commits, repository.includeCommitters)
        lines == SelectSeq(split(trim(output), "\n"), isTruthy)
    IN [authors |-> authorsOf(countLines(<<>>, lines)), thrown |-> NoError]

(***************************************************************************)
(* The report generator and the canonical selector (mailmap.js), after     *)
(* sections 4.4 and 4.5 of the specification and tests/mailmap.test.js.    *)
(* A cluster holds positions into the identity list, as above.             *)
(***************************************************************************)
\* the header block: comment lines naming the file and the tool
MailmapHeader ==
  <<"#", " ", ".", "m", "a", "i", "l", "m", "a", "p", "\n",
    "#", " ", "a", "u", "t", "h", "o", "r", "s", "y", "n", "c", "\n">>

\* '<canonical name> <<canonical email>> <alias name> <<alias email>>'
mailmapLine(canon, alias) ==
  canon.name \o <<" ", "<">> \o canon.email \o <<">", " ">>
    \o alias.name \o <<" ", "<">> \o alias.email \o <<">">>

RECURSIVE aliasLines(_, _, _)
aliasLines(as, canon, aliases) ==
  IF aliases = <<>> THEN <<>>
  ELSE mailmapLine(as[canon], as[Head(aliases)]) \o <<"\n">>
         \o aliasLines(as, canon, Tail(aliases))

RECURSIVE clusterLines(_, _)
clusterLines(as, cs) ==
  IF cs = <<>> THEN <<>>
  ELSE aliasLines(as, Head(cs).canonical, Head(cs).aliases)
         \o clusterLines(as, Tail(cs))

generateMailmap(as, cs, comments) ==
  (IF comments THEN MailmapHeader ELSE <<>>) \o clusterLines(as, cs)

RECURSIVE countAliases(_)
countAliases(cs) ==
  IF cs = <<>> THEN 0 ELSE Len(Head(cs).aliases) + countAliases(Tail(cs))

RECURSIVE aliasCommits(_, _)
aliasCommits(as, cs) ==
  IF cs = <<>> THEN 0
  ELSE sumCommits(as, Head(cs).aliases) + aliasCommits(as, Tail(cs))

\* Math.round of the non-negative quotient num / den (halves round up)
roundDiv(num, den) == (2 * num + den) \div (2 * den)

\* a plausible slip: the percentage is truncated instead of rounded
generateStatsTruncating(as, cs, total) ==
  [clustersFound |-> Len(cs),
   aliasesConsolidated |-> countAliases(cs),
   commitsAffected |-> aliasCommits(as, cs),
   authorsAfter |-> total - countAliases(cs),
   reductionPercent |->
     IF total = 0 THEN 0 ELSE (countAliases(cs) * 100) \div total]

generateStats(as, cs, total) ==
  [clustersFound |-> Len(cs),
   aliasesConsolidated |-> countAliases(cs),
   commitsAffected |-> aliasCommits(as, cs),
   authorsAfter |-> total - countAliases(cs),
   reductionPercent |->
     IF total = 0 THEN 0 ELSE roundDiv(countAliases(cs) * 100, total)]

\* isNoReply of the matcher
isNoReply(email) ==
  LET lower == toLowerCase(email)
  IN \/ includes(lower, <<"n", "o", "r", "e", "p", "l", "y">>)
     \/ includes(lower, <<"n", "o", "-", "r", "e", "p", "l", "y">>)
     \/ includes(lower, GithubSuffix)
     \/ includes(lower, <<"@", "u", "s", "e", "r", "s", ".", "n", "o", "r", "e", "p", "l", "y", ".", "g", "i", "t", "l", "a", "b", ".", "c", "o", "m">>)
     \/ includes(lower, <<"+">>)

GenericNames == { <<"r", "o", "o", "t">>, <<"a", "d", "m", "i", "n">>, <<"u", "s", "e", "r">> }

FreeMailDomains ==
  { <<"g", "m", "a", "i", "l", ".", "c", "o", "m">>,
    <<"y", "a", "h", "o", "o", ".", "c", "o", "m">>,
    <<"h", "o", "t", "m", "a", "i", "l", ".", "c", "o", "m">> }

\* the number of words of a name
nameTokens(name) ==
  LET parts == split(trim(name), " ")
  IN Cardinality({k \in 1..Len(parts) : parts[k] # <<>>})

\* the composite score: commits, scaled down for a no-reply address and for
\* a placeholder name, scaled up for a domain that is not a free-mail one
canonicalScore(identity) ==
  RMul(RMul(RMul(Rat(identity.commits, 1),
                 IF isNoReply(identity.email) THEN Rat(1, 10) ELSE One),
            IF toLowerCase(trim(identity.name)) \in GenericNames
              THEN Rat(1, 100) ELSE One),
       IF emailDomain(identity.email) \in FreeMailDomains
         THEN One ELSE Rat(12, 10))

\* x outranks y: a higher score, or the same score and a fuller name
outranks(x, y) ==
  \/ RLt(canonicalScore(y), canonicalScore(x))
  \/ /\ canonicalScore(y) = canonicalScore(x)
     /\ nameTokens(x.name) > nameTokens(y.name)

EmptyInputError == "EmptyInputError"

\* a plausible slip: no identity, no error
selectCanonicalNoThrow(identities) ==
  IF identities = <<>> THEN "undefined"
  ELSE identities[CHOOSE p \in 1..Len(identities) :
                    /\ \A q \in 1..Len(identities) :
                         ~outranks(identities[q], identities[p])
                    /\ \A q \in 1..(p - 1) :
                         outranks(identities[p], identities[q])]

\* the first identity no other outranks; throws on an empty list
selectCanonical(identities) ==
  IF identities = <<>> THEN EmptyInputError
  ELSE identities[CHOOSE p \in 1..Len(identities) :
                    /\ \A q \in 1..Len(identities) :
                         ~outranks(identities[q], identities[p])
                    /\ \A q \in 1..(p - 1) :
                         outranks(identities[p], identities[q])]

(***************************************************************************)
(* Inputs: names.                                                          *)
(***************************************************************************)
NameAlphabet == {"a", "B", " ", "-"}

StringsUpTo(alphabet, n) ==
  UNION {[1..k -> alphabet] : k \in 0..n}

ExtraNames == { <<"a", " ", "a", "b", " ", "b">>,
                <<"b", " ", "a">> }

Names == StringsUpTo(NameAlphabet, MaxNameLen) \cup ExtraNames

NoResult == <<>>

\* no command running: nothing printed, no exit code (-1)
IdleCli ==
  /\ opts = NoResult /\ mailmapFile = NoResult /\ existingMailmap = NoResult
  /\ console = <<>> /\ exitCode = -1

\* nothing scanned, parsed or reported yet
IdleReport ==
  /\ content = <<>> /\ mappings = NoResult
  /\ stats = NoResult /\ totalAuthorsBefore = 0
  /\ selected = NoResult /\ repo = NoResult /\ thrown = NoError
  /\ distance = NoResult
  /\ IdleCli

(***************************************************************************)
(* Specification of the name scorer: two names are drawn, then scored.     *)
(***************************************************************************)
InitName ==
  /\ pc = "start"
  /\ name1 \in Names
  /\ name2 \in Names
  /\ similarity = NoResult
  /\ email1 = <<>> /\ email2 = <<>> /\ verdict = NoResult
  /\ localPart = NoResult /\ domainPart = NoResult
  /\ authors = <<>> /\ minConfidence = Zero /\ clusters = NoResult
  /\ IdleReport

CallNameSimilarity ==
  /\ pc = "start"
  /\ pc' = "nameSimilarity"
  /\ similarity' = nameSimilarity(name1, name2)
  /\ UNCHANGED <<name1, name2, email1, email2, verdict, localPart,
                 domainPart, authors, minConfidence, clusters, reportVars>>

NextName == CallNameSimilarity

SpecName == InitName /\ [][NextName]_vars

(***************************************************************************)
(* Specification of the edit distance: two strings over three letters are  *)
(* drawn, then levenshtein runs on them.                                   *)
(***************************************************************************)
LevAlphabet == {"a", "b", "c"}

LevStrings == StringsUpTo(LevAlphabet, MaxNameLen)

InitLev ==
  /\ pc = "start"
  /\ name1 \in LevStrings
  /\ name2 \in LevStrings
  /\ similarity = NoResult
  /\ email1 = <<>> /\ email2 = <<>> /\ verdict = NoResult
  /\ localPart = NoResult /\ domainPart = NoResult
  /\ authors = <<>> /\ minConfidence = Zero /\ clusters = NoResult
  /\ IdleReport

CallLevenshtein ==
  /\ pc = "start"
  /\ pc' = "levenshtein"
  /\ distance' = levenshtein(name1, name2)
  /\ UNCHANGED <<matcherVars, content, mappings, stats, totalAuthorsBefore,
                 selected, repo, thrown, cliVars>>

NextLev == CallLevenshtein

SpecLev == InitLev /\ [][NextLev]_vars

(***************************************************************************)
(* Inputs: emails, built from local parts and domains, plus malformed      *)
(* addresses (no '@', two '@', empty local part, empty domain).            *)
(***************************************************************************)
Locals == { <<"j","o","h","n">>,
            <<"J","o","h","n">>,
            <<"b","o","b">>,
            <<"1","2","+","j","o","h","n">>,
            <<"5","+","b","o","b">>,
            <<"7","+","5","+","b","o","b">>,
            <<"7","+">> }

Domains == { <<"x",".","i","o">>,
             <<"Y",".","i","o">>,
             <<"u","s","e","r","s",".","n","o","r","e","p","l","y",
               ".","g","i","t","h","u","b",".","c","o","m">>,
             <<"U","s","e","r","s",".","n","o","r","e","p","l","y",
               ".","G","i","t","H","u","b",".","c","o","m">> }

Malformed == { <<>>,
               <<"j","o","h","n">>,
               <<"j","o","h","n","@">>,
               <<"@","x",".","i","o">>,
               <<"j","o","h","n","@","x",".","i","o","@","Y",".","i","o">>,
               <<"b","o","b","@","@","x",".","i","o">> }

Emails == {l \o <<"@">> \o d : l \in Locals, d \in Domains} \cup Malformed

(***************************************************************************)
(* Specification of the email functions: two emails are drawn; then either *)
(* they are matched, or the first is taken apart.                          *)
(***************************************************************************)
InitEmail ==
  /\ pc = "start"
  /\ email1 \in Emails
  /\ email2 \in Emails
  /\ verdict = NoResult /\ localPart = NoResult /\ domainPart = NoResult
  /\ name1 = <<>> /\ name2 = <<>> /\ similarity = NoResult
  /\ authors = <<>> /\ minConfidence = Zero /\ clusters = NoResult
  /\ IdleReport

CallEmailsMatch ==
  /\ pc = "start"
  /\ pc' = "emailsMatch"
  /\ verdict' = emailsMatch(email1, email2)
  /\ UNCHANGED <<name1, name2, similarity, email1, email2, localPart,
                 domainPart, authors, minConfidence, clusters, reportVars>>

CallEmailParts ==
  /\ pc = "start"
  /\ pc' = "emailParts"
  /\ localPart' = emailLocal(email1)
  /\ domainPart' = emailDomain(email1)
  /\ UNCHANGED <<name1, name2, similarity, email1, email2, verdict,
                 authors, minConfidence, clusters, reportVars>>

NextEmail == CallEmailsMatch \/ CallEmailParts

SpecEmail == InitEmail /\ [][NextEmail]_vars

(***************************************************************************)
(* Inputs: identity lists over three name/email profiles.  Between them    *)
(* occur an exact email with equal names (the same profile twice), an      *)
(* exact email with unrelated names, equal names with unrelated emails,    *)
(* and no relation at all.                                                 *)
(***************************************************************************)
NameAl == <<"a","l">>
NameAL == <<"A","L">>
NameBo == <<"b","o">>
EmailAX == <<"a","@","x">>
EmailJohnY == <<"j","o","h","n","@","y">>

Profiles == { <<NameAl, EmailAX>>, <<NameBo, EmailAX>>,
              <<NameAL, EmailJohnY>> }

Identities ==
  {[name |-> p[1], email |-> p[2], commits |-> c] :
     p \in Profiles, c \in 1..MaxCommits}

Thresholds == {Zero, Rat(6, 10), Rat(9, 10)}
DefaultMinConfidence == Rat(6, 10)

(***************************************************************************)
(* Specification of the cluster builder: a list of identities and a        *)
(* threshold are drawn, then findClusters runs on them.                    *)
(***************************************************************************)
Init ==
  /\ pc = "start"
  /\ authors \in UNION {[1..n -> Identities] : n \in 0..MaxAuthors}
  /\ minConfidence \in Thresholds
  /\ clusters = NoResult
  /\ name1 = <<>> /\ name2 = <<>> /\ similarity = NoResult
  /\ email1 = <<>> /\ email2 = <<>> /\ verdict = NoResult
  /\ localPart = NoResult /\ domainPart = NoResult
  /\ IdleReport

CallFindClusters ==
  /\ pc = "start"
  /\ pc' = "findClusters"
  /\ clusters' = findClusters(authors, minConfidence)
  /\ UNCHANGED <<name1, name2, similarity, email1, email2, verdict,
                 localPart, domainPart, authors, minConfidence, reportVars>>

Next == CallFindClusters

Spec == Init /\ [][Next]_vars

(***************************************************************************)
(* Inputs: pairs of identities.  The names give the similarities 1, 0.9    *)
(* (containment), 5/6, exactly 0.8 and values below 0.3; the emails give   *)
(* every verdict of emailsMatch, with equal and with different domains.    *)
(* The thresholds are the confidences the chain can return exactly (the    *)
(* products by a factor of 1) and 0.45, which lies between the discounted  *)
(* products 0.7 x 0.6 and 0.8 x 0.6.                                       *)
(***************************************************************************)
PairNames == { NameAl, NameAL, NameBo, <<"a", "l", " ", "b", "o">>,
               <<"a", "b", "c", "d", "e">>, <<"a", "b", "c", "d", "f">>,
               <<"a", "b", "c", "d", "e", "f">> }

PairEmails ==
  { EmailAX, <<"a", "@", "y">>,
    <<"j", "o", "h", "n", "@", "x">>, EmailJohnY,
    <<"1", "2", "+", "j", "o", "h", "n">> \o GithubSuffix,
    <<"j", "o", "h", "n">> \o GithubSuffix }

PairIdentities(commits) ==
  { [name |-> n, email |-> e, commits |-> c] :
      n \in PairNames, e \in PairEmails, c \in commits }

PairThresholds ==
  { Zero, Rat(45, 100), Rat(6, 10), Rat(7, 10), Rat(8, 10), Rat(9, 10),
    Rat(95, 100), One }

(***************************************************************************)
(* Specification of the cluster builder on two identities.                 *)
(***************************************************************************)
InitPair ==
  /\ pc = "start"
  /\ \E first \in PairIdentities({1}),
        second \in PairIdentities(1..MaxCommits) :
       authors = <<first, second>>
  /\ minConfidence \in PairThresholds
  /\ clusters = NoResult
  /\ name1 = <<>> /\ name2 = <<>> /\ similarity = NoResult
  /\ email1 = <<>> /\ email2 = <<>> /\ verdict = NoResult
  /\ localPart = NoResult /\ domainPart = NoResult
  /\ IdleReport

NextPair == CallFindClusters

SpecPair == InitPair /\ [][NextPair]_vars

(***************************************************************************)
(* Specification of the cluster builder on short lists whose commit counts *)
(* range over 1..MaxDistinct, so that lists without ties occur.            *)
(***************************************************************************)
OrderIdentities ==
  {[name |-> p[1], email |-> p[2], commits |-> c] :
     p \in Profiles, c \in 1..MaxDistinct}

InitOrder ==
  /\ pc = "start"
  /\ authors \in UNION {[1..n -> OrderIdentities] : n \in 0..MaxDistinct}
  /\ minConfidence \in Thresholds
  /\ clusters = NoResult
  /\ name1 = <<>> /\ name2 = <<>> /\ similarity = NoResult
  /\ email1 = <<>> /\ email2 = <<>> /\ verdict = NoResult
  /\ localPart = NoResult /\ domainPart = NoResult
  /\ IdleReport

NextOrder == CallFindClusters

SpecOrder == InitOrder /\ [][NextOrder]_vars

(***************************************************************************)
(* Inputs: mailmap texts, the concatenations of at most MaxTokens pieces.  *)
(* The pieces hold a whole name-only line, names, white space, an address  *)
(* with inner white space, stray angle brackets, the comment mark and the  *)
(* line feed.                                                              *)
(***************************************************************************)
MailmapTokens ==
  { <<"A", "<", "a", ">">>, <<"B">>, <<" ">>, <<"\t">>,
    <<"<", " ", "a", ">">>, <<"<">>, <<">">>, <<"#">>, <<"\n">> }

RECURSIVE concatUpTo(_, _)
concatUpTo(tokens, n) ==
  IF n = 0 THEN {<<>>}
  ELSE LET shorter == concatUpTo(tokens, n - 1)
       IN shorter \cup {s \o t : s \in shorter, t \in tokens}

MailmapContents == concatUpTo(MailmapTokens, MaxTokens)

IdleMatcher ==
  /\ name1 = <<>> /\ name2 = <<>> /\ similarity = NoResult
  /\ email1 = <<>> /\ email2 = <<>> /\ verdict = NoResult
  /\ localPart = NoResult /\ domainPart = NoResult
  /\ minConfidence = Zero

(***************************************************************************)
(* Specification of the mailmap parser: a text is drawn, then parsed.      *)
(***************************************************************************)
InitMailmap ==
  /\ pc = "start"
  /\ content \in MailmapContents
  /\ mappings = NoResult
  /\ IdleMatcher
  /\ authors = <<>> /\ clusters = NoResult
  /\ stats = NoResult /\ totalAuthorsBefore = 0
  /\ selected = NoResult /\ repo = NoResult /\ thrown = NoError
  /\ distance = NoResult
  /\ IdleCli

\* parseMailmap on a given text, or on the text generateMailmap returned
CallParseMailmap ==
  /\ pc \in {"start", "generateMailmap"}
  /\ pc' = IF pc = "start" THEN "parseMailmap" ELSE "roundTrip"
  /\ mappings' = parseMailmap(content)
  /\ UNCHANGED <<matcherVars, content, stats, totalAuthorsBefore, selected,
                 repo, thrown, distance, cliVars>>

NextMailmap == CallParseMailmap

SpecMailmap == InitMailmap /\ [][NextMailmap]_vars

(***************************************************************************)
(* Inputs of the report: lists of distinct (name, email) pairs, as         *)
(* scanAuthors returns them.  One name starts with the comment mark; two   *)
(* pairs share a plain address and two share a free-mail alias address,    *)
(* one of them under a placeholder name.                                   *)
(***************************************************************************)
NameHashAl == <<"#", "a", "l">>
NameRoot == <<"r", "o", "o", "t">>
EmailAliasGmail == <<"r", "+", "1", "@", "g", "m", "a", "i", "l", ".", "c", "o", "m">>

ReportProfiles == { <<NameHashAl, EmailAX>>, <<NameBo, EmailAX>>,
                    <<NameAL, EmailAliasGmail>>, <<NameRoot, EmailAliasGmail>> }

ReportIdentities ==
  { [name |-> p[1], email |-> p[2], commits |-> c] :
      p \in ReportProfiles, c \in 1..MaxCommits }

ReportAuthors ==
  { as \in UNION {[1..n -> ReportIdentities] : n \in 0..MaxAuthors} :
      \A i \in 1..Len(as), j \in 1..Len(as) :
        i # j => <<as[i].name, as[i].email>> # <<as[j].name, as[j].email>> }

(***************************************************************************)
(* Specification of the report: the identities are clustered with the      *)
(* default threshold; the clusters are rendered as a mailmap, which is     *)
(* parsed back, or summarised as statistics; selectCanonical is applied to *)
(* the identity list.                                                      *)
(***************************************************************************)
InitReport ==
  /\ pc = "start"
  /\ authors \in ReportAuthors
  /\ minConfidence = DefaultMinConfidence
  /\ clusters = NoResult
  /\ name1 = <<>> /\ name2 = <<>> /\ similarity = NoResult
  /\ email1 = <<>> /\ email2 = <<>> /\ verdict = NoResult
  /\ localPart = NoResult /\ domainPart = NoResult
  /\ IdleReport

CallGenerateMailmap ==
  /\ pc = "findClusters"
  /\ pc' = "generateMailmap"
  /\ \E comments \in BOOLEAN :
       content' = generateMailmap(authors, clusters, comments)
  /\ UNCHANGED <<matcherVars, mappings, stats, totalAuthorsBefore, selected,
                 repo, thrown, distance, cliVars>>

CallGenerateStats ==
  /\ pc = "findClusters"
  /\ pc' = "generateStats"
  /\ \E total \in 0..MaxAuthors :
       /\ totalAuthorsBefore' = total
       /\ stats' = generateStats(authors, clusters, total)
  /\ UNCHANGED <<matcherVars, content, mappings, selected, repo, thrown,
                 distance, cliVars>>

CallSelectCanonical ==
  /\ pc = "start"
  /\ pc' = "selectCanonical"
  /\ selected' = selectCanonical(authors)
  /\ UNCHANGED <<matcherVars, content, mappings, stats, totalAuthorsBefore,
                 repo, thrown, distance, cliVars>>

NextReport ==
  \/ CallFindClusters
  \/ CallGenerateMailmap
  \/ CallParseMailmap
  \/ CallGenerateStats
  \/ CallSelectCanonical

SpecReport == InitReport /\ [][NextReport]_vars

(***************************************************************************)
(* Inputs of the scanner: repositories with at most MaxLog commits.  The   *)
(* identities include a name that holds the separator '|', an empty name   *)
(* and an empty email.                                                     *)
(***************************************************************************)
ScanAuthors ==
  { [name |-> <<"A">>, email |-> <<"e">>],
    [name |-> <<"B">>, email |-> <<"e">>],
    [name |-> <<"A">>, email |-> <<"B">>],
    [name |-> <<"A", "|", "B">>, email |-> <<"e">>],
    [name |-> <<>>, email |-> <<"e">>],
    [name |-> <<"A">>, email |-> <<>>] }

ScanCommitters ==
  { [name |-> <<"A">>, email |-> <<"e">>],
    [name |-> <<"C">>, email |-> <<"e">>] }

ScanCommits == [author : ScanAuthors, committer : ScanCommitters]

Repositories ==
  { [state |-> "repository", commits |-> cs, includeCommitters |-> ic] :
      cs \in UNION {[1..n -> ScanCommits] : n \in 1..MaxLog},
      ic \in BOOLEAN }
  \cup { [state |-> st, commits |-> <<>>, includeCommitters |-> ic] :
           st \in {"empty", "missing", "broken"}, ic \in BOOLEAN }

(***************************************************************************)
(* Specification of the scanner: a repository is drawn, then scanned.      *)
(***************************************************************************)
InitScan ==
  /\ pc = "start"
  /\ repo \in Repositories
  /\ thrown = NoError
  /\ IdleMatcher
  /\ authors = <<>> /\ clusters = NoResult
  /\ content = <<>> /\ mappings = NoResult
  /\ stats = NoResult /\ totalAuthorsBefore = 0
  /\ selected = NoResult /\ distance = NoResult
  /\ IdleCli

CallScanAuthors ==
  /\ pc = "start"
  /\ pc' = "scanAuthors"
  /\ authors' = scanAuthors(repo).authors
  /\ thrown' = scanAuthors(repo).thrown
  /\ UNCHANGED <<name1, name2, similarity, email1, email2, verdict,
                 localPart, domainPart, minConfidence, clusters, content,
                 mappings, stats, totalAuthorsBefore, selected, repo,
                 distance, cliVars>>

NextScan == CallScanAuthors

SpecScan == InitScan /\ [][NextScan]_vars

(***************************************************************************)
(* The apply command of the command line (cli.js, runApply, and the error  *)
(* handling of main around it).  The command is modelled statement by      *)
(* statement: pc is the position inside runApply.                          *)
(***************************************************************************)
OverwriteWarning == "Existing .mailmap found - will be overwritten"
NoCommitsMessage == "No commits found in repository"
NoClustersMessage == "No duplicate identities found - no .mailmap needed"
CreatedMessage == "Created .mailmap"
NotARepositoryMessage == "Error: not a git repository"
ErrorMessage == "Error:"

\* a file: whether it exists, and its text
File(text) == [exists |-> TRUE, content |-> text]
NoFile == [exists |-> FALSE, content |-> <<>>]

\* getExistingMailmap of the scanner: the text of the file, null without one
Null == [isNull |-> TRUE, text |-> <<>>]
getExistingMailmap(file) ==
  IF file.exists THEN [isNull |-> FALSE, text |-> file.content] ELSE Null

\* the value of a run of decimal digits
digitValue(c) ==
  (CHOOSE n \in 1..10 :
     <<"0", "1", "2", "3", "4", "5", "6", "7", "8", "9">>[n] = c) - 1

RECURSIVE digitsValue(_)
digitsValue(s) ==
  IF s = <<>> THEN 0
  ELSE 10 * digitsValue(SubSeq(s, 1, Len(s) - 1)) + digitValue(s[Len(s)])

RECURSIVE powerOfTen(_)
powerOfTen(n) == IF n = 0 THEN 1 ELSE 10 * powerOfTen(n - 1)

\* parseFloat on unsigned decimal text: the longest prefix of digits, a
\* point and digits; NaN when that prefix holds no digit
NaN == <<0, 0>>
parseFloat(s) ==
  LET whole == SubSeq(s, 1, leadingDigits(s))
      rest == SubSeq(s, Len(whole) + 1, Len(s))
      fraction == IF rest # <<>> /\ Head(rest) = "."
                    THEN SubSeq(rest, 2, 1 + leadingDigits(Tail(rest)))
                    ELSE <<>>
  IN IF whole = <<>> /\ fraction = <<>> THEN NaN
     ELSE RAdd(Rat(digitsValue(whole), 1),
               Rat(digitsValue(fraction), powerOfTen(Len(fraction))))

\* a plausible slip: the command goes on without authors
noAuthorsNever(as) == FALSE

\* authors.length === 0
noAuthors(as) == Len(as) = 0

\* a plausible slip: the command goes on without clusters
noClustersNever(cs) == FALSE

\* clusters.length === 0
noClusters(cs) == Len(cs) = 0

(***************************************************************************)
(* Inputs of the apply command: a repository with at most MaxLog commits   *)
(* (or none, or no repository, or a failing git), the options, and the     *)
(* .mailmap file: none, an empty one, or one with a comment line.  Two of  *)
(* the authors share an address; one author has no name, so that its       *)
(* commits yield no identity.                                              *)
(***************************************************************************)
ApplyAuthors ==
  { [name |-> <<"A">>, email |-> <<"e">>],
    [name |-> <<"B">>, email |-> <<"e">>],
    [name |-> <<"C">>, email |-> <<"f">>],
    [name |-> <<>>, email |-> <<"e">>] }

\* the committer is the third author under a name in lower case
ApplyCommits ==
  [author : ApplyAuthors, committer : {[name |-> <<"c">>, email |-> <<"f">>]}]

ApplyRepositories ==
  { [state |-> "repository", commits |-> cs] :
      cs \in UNION {[1..n -> ApplyCommits] : n \in 1..MaxLog} }
  \cup { [state |-> st, commits |-> <<>>] :
           st \in {"empty", "missing", "broken"} }

ApplyConfidences == { <<"0", ".", "6">>, <<"1">>, <<"x">> }

ApplyOptions ==
  [quiet : BOOLEAN, committers : BOOLEAN, noComments : BOOLEAN,
   confidence : ApplyConfidences]

OldMailmap == <<"#", " ", "o", "l", "d", "\n">>

ApplyFiles == {NoFile, File(<<>>), File(OldMailmap)}

\* the command has not started; the process ends at pc "exit"
InitApply ==
  /\ pc = "start"
  /\ repo \in ApplyRepositories
  /\ opts \in ApplyOptions
  /\ mailmapFile \in ApplyFiles
  /\ existingMailmap = NoResult
  /\ console = <<>> /\ exitCode = -1
  /\ thrown = NoError
  /\ IdleMatcher
  /\ authors = <<>> /\ clusters = NoResult
  /\ content = <<>> /\ mappings = NoResult
  /\ stats = NoResult /\ totalAuthorsBefore = 0
  /\ selected = NoResult /\ distance = NoResult

\* the existing file is read, and announced as about to be overwritten
ApplyGetExisting ==
  /\ pc = "start"
  /\ pc' = "applyScan"
  /\ existingMailmap' = getExistingMailmap(mailmapFile)
  /\ console' =
       IF isTruthy(getExistingMailmap(mailmapFile).text) /\ ~opts.quiet
       THEN Append(console, OverwriteWarning) ELSE console
  /\ UNCHANGED <<matcherVars, content, mappings, stats, totalAuthorsBefore,
                 selected, repo, thrown, distance, opts, mailmapFile,
                 exitCode>>

\* the scan; an error ends the command in main, an empty list in runApply
ApplyScan ==
  /\ pc = "applyScan"
  /\ LET scan == scanAuthors([state |-> repo.state,
                              commits |-> repo.commits,
                              includeCommitters |-> opts.committers])
     IN /\ authors' = scan.authors
        /\ thrown' = scan.thrown
        /\ IF scan.thrown = NotAGitRepository
           THEN /\ console' = Append(console, NotARepositoryMessage)
                /\ exitCode' = 1 /\ pc' = "exit"
           ELSE IF scan.thrown # NoError
           THEN /\ console' = Append(console, ErrorMessage)
                /\ exitCode' = 1 /\ pc' = "exit"
           ELSE IF noAuthors(scan.authors)
           THEN /\ console' = Append(console, NoCommitsMessage)
                /\ exitCode' = 1 /\ pc' = "exit"
           ELSE /\ pc' = "applyCluster"
                /\ UNCHANGED <<console, exitCode>>
  /\ UNCHANGED <<name1, name2, similarity, email1, email2, verdict,
                 localPart, domainPart, minConfidence, clusters, content,
                 mappings, stats, totalAuthorsBefore, selected, repo,
                 distance, opts, mailmapFile, existingMailmap>>

\* the clusters for the threshold of the options; no comparison with NaN
\* holds, so that no alias is collected for it and no cluster is built
ApplyFindClusters ==
  /\ pc = "applyCluster"
  /\ minConfidence' = parseFloat(opts.confidence)
  /\ LET found == IF parseFloat(opts.confidence) = NaN THEN <<>>
                  ELSE findClusters(authors, parseFloat(opts.confidence))
     IN /\ clusters' = found
        /\ IF noClusters(found)
           THEN /\ console' = Append(console, NoClustersMessage)
                /\ exitCode' = 0 /\ pc' = "exit"
           ELSE /\ pc' = "applyWrite"
                /\ UNCHANGED <<console, exitCode>>
  /\ UNCHANGED <<name1, name2, similarity, email1, email2, verdict,
                 localPart, domainPart, authors, content, mappings, stats,
                 totalAuthorsBefore, selected, repo, thrown, distance, opts,
                 mailmapFile, existingMailmap>>

\* the mailmap is generated and written; the command ends normally
ApplyWrite ==
  /\ pc = "applyWrite"
  /\ pc' = "exit"
  /\ content' = generateMailmap(authors, clusters, ~opts.noComments)
  /\ mailmapFile' = File(generateMailmap(authors, clusters, ~opts.noComments))
  /\ IF opts.quiet
     THEN UNCHANGED <<stats, totalAuthorsBefore, console>>
     ELSE /\ totalAuthorsBefore' = Len(authors)
          /\ stats' = generateStats(authors, clusters, Len(authors))
          /\ console' = Append(console, CreatedMessage)
  /\ exitCode' = 0
  /\ UNCHANGED <<matcherVars, mappings, selected, repo, thrown, distance,
                 opts, existingMailmap>>

NextApply ==
  \/ ApplyGetExisting
  \/ ApplyScan
  \/ ApplyFindClusters
  \/ ApplyWrite

SpecApply == InitApply /\ [][NextApply]_vars

(***************************************************************************)
(* Properties of findClusters (specification Spec).                        *)
(***************************************************************************)
Done == pc = "findClusters"

\* the input positions a cluster holds, canonical first
members(c) == <<c.canonical>> \o c.aliases

RECURSIVE allMembers(_)
allMembers(cs) == IF cs = <<>> THEN <<>> ELSE members(Head(cs)) \o allMembers(Tail(cs))

\* index of input position p in the commit-sorted order
sortedIndex(p) ==
  LET sorted == sortByCommits(authors)
  IN CHOOSE k \in 1..Len(sorted) : sorted[k] = p

\* C1: over all returned clusters, canonicals and aliases together, every
\* input position occurs at most once (and only input positions occur).
C1_ClustersDisjoint ==
  Done =>
    LET all == allMembers(clusters)
    IN /\ \A k \in 1..Len(all) : all[k] \in 1..Len(authors)
       /\ \A k, m \in 1..Len(all) : all[k] = all[m] => k = m

\* two clusters were emitted and together they hold every input position
C1_Witness ==
  /\ Done
  /\ Len(clusters) >= 2
  /\ Range(allMembers(clusters)) = 1..Len(authors)

\* C2: every emitted cluster has at least one alias, and an input of 0 or 1
\* identities yields no cluster.
C2_NoSingletonCluster ==
  Done =>
    /\ \A k \in 1..Len(clusters) : Len(clusters[k].aliases) >= 1
    /\ Len(authors) <= 1 => clusters = <<>>

\* a cluster was emitted while another identity matched nothing and is in
\* no cluster
C2_Witness ==
  /\ Done
  /\ clusters # <<>>
  /\ \E p \in 1..Len(authors) : p \notin Range(allMembers(clusters))

SameEmailPair ==
  /\ Done
  /\ minConfidence = DefaultMinConfidence
  /\ Len(authors) = 2
  /\ authors[1].email = authors[2].email

\* C3 as stated: two identities with the same email give exactly one
\* cluster whose reason is "exact-email", whatever the names.
C3_Original ==
  SameEmailPair =>
    Len(clusters) = 1 /\ clusters[1].reason = "exact-email"

\* C3 amended: two identities with the same email give exactly one cluster;
\* its reason is "exact-email" when the name similarity is at least 0.3 and
\* "exact-email-name-mismatch" when it is below 0.3.
C3_SameEmailOneCluster ==
  SameEmailPair =>
    /\ Len(clusters) = 1
    /\ clusters[1].reason =
         IF RLt(nameSimilarity(authors[1].name, authors[2].name), Rat(3, 10))
         THEN "exact-email-name-mismatch"
         ELSE "exact-email"

\* the same email under two unrelated names
C3_Witness ==
  /\ SameEmailPair
  /\ Len(clusters) = 1
  /\ clusters[1].reason = "exact-email-name-mismatch"

C10_SortedByTotalCommits ==
  Done =>
    \A k, m \in 1..Len(clusters) :
      k < m =>
        /\ totalCommits(authors, clusters[k]) >= totalCommits(authors, clusters[m])
        /\ totalCommits(authors, clusters[k]) = totalCommits(authors, clusters[m])
             => sortedIndex(clusters[k].canonical)
                  < sortedIndex(clusters[m].canonical)

\* a cluster discovered later is returned first because its total is larger
C10_Witness ==
  /\ Done
  /\ Len(clusters) = 2
  /\ sortedIndex(clusters[1].canonical) > sortedIndex(clusters[2].canonical)
  /\ totalCommits(authors, clusters[1]) > totalCommits(authors, clusters[2])

\* C11: along every cluster (canonical, then the aliases in their order) the
\* commit counts do not increase, and of two neighbours with equal counts
\* the one earlier in the input list comes first.
C11_CanonicalHasMostCommits ==
  Done =>
    \A k \in 1..Len(clusters) :
      LET ms == members(clusters[k])
      IN \A m \in 1..(Len(ms) - 1) :
           /\ authors[ms[m]].commits >= authors[ms[m + 1]].commits
           /\ authors[ms[m]].commits = authors[ms[m + 1]].commits
                => ms[m] < ms[m + 1]

\* a canonical tied with its first alias on commits and ahead of its second
C11_Witness ==
  /\ Done
  /\ \E k \in 1..Len(clusters) :
       /\ Len(clusters[k].aliases) >= 2
       /\ authors[clusters[k].canonical].commits
            = authors[clusters[k].aliases[1]].commits
       /\ authors[clusters[k].aliases[1]].commits
            > authors[clusters[k].aliases[2]].commits
       /\ clusters[k].aliases[1] > 1

ReasonTags ==
  {"exact-email", "same-local-part", "github-noreply-username",
   "github-noreply-match", "exact-email-name-mismatch",
   "same-local-part-name-mismatch", "github-noreply-username-name-mismatch",
   "github-noreply-match-name-mismatch", "similar-name",
   "similar-name-same-domain"}

\* the reasons computed for the aliases of cluster c, in alias order
aliasReasons(c) ==
  [k \in 1..Len(c.aliases) |->
     pairConfidence(authors[c.canonical], authors[c.aliases[k]]).reason]

\* C18: the reason of a cluster is the reason of its first alias with a
\* non-empty reason (empty when there is none), and for a threshold above 0
\* it is one of the enumerated tags.
C18_ReasonOfFirstAlias ==
  Done =>
    \A k \in 1..Len(clusters) :
      LET rs == aliasReasons(clusters[k])
          nonEmpty == {m \in 1..Len(rs) : rs[m] # ""}
      IN /\ clusters[k].reason =
              IF nonEmpty = {} THEN ""
              ELSE rs[CHOOSE m \in nonEmpty : \A q \in nonEmpty : m <= q]
         /\ RLt(Zero, minConfidence) =>
              clusters[k].reason = rs[1] /\ clusters[k].reason \in ReasonTags

\* a candidate with another reason was evaluated and rejected before the
\* first alias was accepted
C18_Witness ==
  /\ Done
  /\ RLt(Zero, minConfidence)
  /\ \E k \in 1..Len(clusters) :
       \E p \in 1..Len(authors) :
         LET r == pairConfidence(authors[clusters[k].canonical], authors[p])
         IN /\ sortedIndex(clusters[k].canonical) < sortedIndex(p)
            /\ sortedIndex(p) < sortedIndex(clusters[k].aliases[1])
            /\ RLt(r.confidence, minConfidence)
            /\ r.reason # ""
            /\ r.reason # clusters[k].reason

\* C19: the confidence of every emitted cluster is 0.8.
C19_ConfidenceConstant ==
  Done => \A k \in 1..Len(clusters) : clusters[k].confidence = Rat(8, 10)

\* a cluster emitted under a threshold above 0.8 from aliases whose pair
\* confidence is 1
C19_Witness ==
  /\ Done
  /\ RLt(Rat(8, 10), minConfidence)
  /\ \E k \in 1..Len(clusters) :
       /\ clusters[k].confidence = Rat(8, 10)
       /\ pairConfidence(authors[clusters[k].canonical],
                         authors[clusters[k].aliases[1]]).confidence = One

\* the input positions that are in no cluster
unclustered == (1..Len(authors)) \ Range(allMembers(clusters))

confidenceOf(p, q) == pairConfidence(authors[p], authors[q]).confidence

\* C21: every alias reaches minConfidence with the canonical of its own
\* cluster; two identities that are both in no cluster stay below
\* minConfidence with each other (in either order); an identity in no
\* cluster that is sorted after a cluster's canonical stays below
\* minConfidence with that canonical.
C21_GreedyMaximality ==
  Done =>
    /\ \A k \in 1..Len(clusters) :
         \A a \in 1..Len(clusters[k].aliases) :
           RLeq(minConfidence,
                confidenceOf(clusters[k].canonical, clusters[k].aliases[a]))
    /\ \A p \in unclustered : \A q \in unclustered \ {p} :
         RLt(confidenceOf(p, q), minConfidence)
    /\ \A k \in 1..Len(clusters) :
         \A p \in unclustered :
           sortedIndex(clusters[k].canonical) < sortedIndex(p)
             => RLt(confidenceOf(clusters[k].canonical, p), minConfidence)

\* next to a cluster, two identities are left in no cluster; both are
\* sorted after the canonical, and one of them has a positive confidence
\* with it that stays below the threshold
C21_Witness ==
  /\ Done
  /\ \E k \in 1..Len(clusters) :
       \E p \in unclustered : \E q \in unclustered \ {p} :
         /\ sortedIndex(clusters[k].canonical) < sortedIndex(p)
         /\ sortedIndex(clusters[k].canonical) < sortedIndex(q)
         /\ RLt(Zero, confidenceOf(clusters[k].canonical, p))
         /\ RLt(confidenceOf(clusters[k].canonical, p), minConfidence)

(***************************************************************************)
(* Properties of findClusters under reordering (specification SpecOrder).  *)
(***************************************************************************)
reorderings(n) ==
  {f \in [1..n -> 1..n] : \A x \in 1..n, y \in 1..n : f[x] = f[y] => x = y}

\* the clusters with the identities themselves in place of their positions
clusterRecords(as, cs) ==
  [k \in 1..Len(cs) |->
     [canonical |-> as[cs[k].canonical],
      aliases |-> [a \in 1..Len(cs[k].aliases) |-> as[cs[k].aliases[a]]],
      reason |-> cs[k].reason]]

distinctCommits ==
  \A x \in 1..Len(authors), y \in 1..Len(authors) :
    authors[x].commits = authors[y].commits => x = y

\* C22: when the commit counts of the input are pairwise distinct,
\* findClusters returns the same sequence of clusters (canonicals, aliases
\* in order, reasons) for every permutation of the input list.
C22_OrderIndependent ==
  (Done /\ distinctCommits) =>
    \A f \in reorderings(Len(authors)) :
      LET permuted == [k \in 1..Len(authors) |-> authors[f[k]]]
      IN clusterRecords(permuted, findClusters(permuted, minConfidence))
           = clusterRecords(authors, clusters)

\* three identities in increasing order of commits form one cluster whose
\* canonical is the last of the input
C22_Witness ==
  /\ Done /\ distinctCommits
  /\ Len(authors) = 3
  /\ authors[1].commits < authors[2].commits
  /\ authors[2].commits < authors[3].commits
  /\ Len(clusters) = 1
  /\ clusters[1].canonical = 3
  /\ clusters[1].aliases = <<2, 1>>

(***************************************************************************)
(* Properties of findClusters on two identities (specification SpecPair).  *)
(***************************************************************************)
\* C17: for the canonical i and the candidate j the confidence is the
\* verdict's when the emails match, times 0.6 with the reason suffixed by
\* '-name-mismatch' when the name similarity is below 0.3; without an email
\* match and with a similarity strictly above 0.8 it is similarity x 0.9
\* ('similar-name-same-domain') for equal domains, else similarity x 0.7
\* ('similar-name'); otherwise it is 0 with an empty reason.  j becomes an
\* alias of i exactly when the confidence is at least minConfidence.
C17_PairConfidenceChain ==
  (Done /\ Len(authors) = 2) =>
    LET i == IF authors[2].commits > authors[1].commits THEN 2 ELSE 1
        j == 3 - i
        v == emailsMatch(authors[i].email, authors[j].email)
        sim == nameSimilarity(authors[i].name, authors[j].name)
        sameDomain == emailDomain(authors[i].email) = emailDomain(authors[j].email)
        conf == IF v.match
                THEN IF RLt(sim, Rat(3, 10))
                     THEN RMul(v.confidence, Rat(6, 10)) ELSE v.confidence
                ELSE IF RLt(Rat(8, 10), sim)
                     THEN IF sameDomain THEN RMul(sim, Rat(9, 10))
                          ELSE RMul(sim, Rat(7, 10))
                     ELSE Zero
        why == IF v.match
               THEN IF RLt(sim, Rat(3, 10))
                    THEN v.reason \o "-name-mismatch" ELSE v.reason
               ELSE IF RLt(Rat(8, 10), sim)
                    THEN IF sameDomain THEN "similar-name-same-domain"
                         ELSE "similar-name"
                    ELSE ""
    IN IF RLeq(minConfidence, conf)
       THEN /\ Len(clusters) = 1
            /\ clusters[1].canonical = i
            /\ clusters[1].aliases = <<j>>
            /\ clusters[1].reason = why
       ELSE clusters = <<>>

\* the second identity is the canonical; the names are 5/6 similar, the
\* emails differ in the local part only, and 5/6 x 0.9 = 0.75 passes 0.7
C17_Witness ==
  /\ Done /\ Len(authors) = 2
  /\ authors[2].commits > authors[1].commits
  /\ nameSimilarity(authors[1].name, authors[2].name) = Rat(5, 6)
  /\ minConfidence = Rat(7, 10)
  /\ Len(clusters) = 1
  /\ clusters[1].canonical = 2
  /\ clusters[1].reason = "similar-name-same-domain"

(***************************************************************************)
(* Properties of parseMailmap (specification SpecMailmap).                 *)
(***************************************************************************)
Parsed == pc = "parseMailmap"

contentLines == split(content, "\n")

isSkipped(line) == trim(line) = <<>> \/ trim(line)[1] = "#"

noChar(t, c, from, to) == \A k \in from..to : t[k] # c

\* the entries of a line 'CN <ce> ON <oe>' (CN and ON possibly empty)
fullMappings(t) ==
  { << trim(SubSeq(t, i[2] + 1, i[3] - 1)) \o <<"|">>
         \o trim(SubSeq(t, i[3] + 1, Len(t) - 1)),
       [name |-> trim(SubSeq(t, 1, i[1] - 1)),
        email |-> trim(SubSeq(t, i[1] + 1, i[2] - 1))] >> :
    i \in { j \in (1..Len(t)) \X (1..Len(t)) \X (1..Len(t)) :
              /\ t[j[1]] = "<" /\ noChar(t, "<", 1, j[1] - 1)
              /\ j[2] > j[1] + 1 /\ t[j[2]] = ">"
              /\ noChar(t, ">", j[1] + 1, j[2] - 1)
              /\ j[3] > j[2] + 1 /\ t[j[2] + 1] \in WhiteSpace
              /\ t[j[3]] = "<" /\ noChar(t, "<", j[2] + 1, j[3] - 1)
              /\ Len(t) > j[3] + 1 /\ t[Len(t)] = ">"
              /\ noChar(t, ">", j[3] + 1, Len(t) - 1) } }

\* the entry of a name-only line 'CN <e>' (CN not empty)
nameOnlyMappings(t) ==
  { << <<"|">> \o trim(SubSeq(t, i + 1, Len(t) - 1)),
       [name |-> trim(SubSeq(t, 1, i - 1)),
        email |-> trim(SubSeq(t, i + 1, Len(t) - 1))] >> :
    i \in { j \in 2..Len(t) :
              /\ t[j] = "<" /\ noChar(t, "<", 1, j - 1)
              /\ Len(t) > j + 1 /\ t[Len(t)] = ">"
              /\ noChar(t, ">", j + 1, Len(t) - 1) } }

\* what the claim lets a line add: nothing for a blank or comment line and
\* for a line outside the grammar
expectedEntries(line) ==
  IF isSkipped(line) THEN {}
  ELSE fullMappings(trim(line)) \cup nameOnlyMappings(trim(line))

\* C12: parseMailmap builds its mapping line by line: a blank or '#' line
\* adds nothing, 'CN <ce> ON <oe>' sets key 'ON|oe' (ON possibly empty) to
\* {CN, ce}, a name-only line 'CN <e>' sets key '|e' to {CN, e}, all
\* trimmed, any other line adds nothing; a later line replaces the value of
\* an earlier one with the same key, and the map has at most as many
\* entries as there are lines that are neither blank nor comments.
C12_ParseMailmapLineByLine ==
  Parsed =>
    LET ls == contentLines
    IN /\ \A n \in 1..Len(ls) : Cardinality(expectedEntries(ls[n])) <= 1
       /\ \A n \in 1..Len(ls) : \A kv \in expectedEntries(ls[n]) :
            kv[1] \in DOMAIN mappings
       /\ \A key \in DOMAIN mappings :
            \E n \in 1..Len(ls) :
              /\ <<key, mappings[key]>> \in expectedEntries(ls[n])
              /\ \A m \in (n + 1)..Len(ls) :
                   \A kv \in expectedEntries(ls[m]) : kv[1] # key
       /\ Cardinality(DOMAIN mappings)
            <= Cardinality({n \in 1..Len(ls) : ~isSkipped(ls[n])})

\* a full line with an old name and an address holding white space
C12_Witness ==
  /\ Parsed
  /\ <<"B", "|", "a">> \in DOMAIN mappings
  /\ mappings[<<"B", "|", "a">>] = [name |-> <<"A">>, email |-> <<"a">>]

(***************************************************************************)
(* Properties of the report (specification SpecReport).                    *)
(***************************************************************************)
RoundTrip == pc = "roundTrip"

aliasKey(alias) == alias.name \o <<"|">> \o alias.email

\* C13: parsing the text generateMailmap produced yields, for every alias
\* of every cluster, an entry under '<alias name>|<alias email>' whose value
\* is the canonical name and email of that cluster, and no other entry.
C13_RoundTrip ==
  RoundTrip =>
    /\ \A k \in 1..Len(clusters) :
         \A a \in 1..Len(clusters[k].aliases) :
           LET alias == authors[clusters[k].aliases[a]]
               canon == authors[clusters[k].canonical]
           IN /\ aliasKey(alias) \in DOMAIN mappings
              /\ mappings[aliasKey(alias)]
                   = [name |-> canon.name, email |-> canon.email]
    /\ \A key \in DOMAIN mappings :
         \E k \in 1..Len(clusters) :
           \E a \in 1..Len(clusters[k].aliases) :
             key = aliasKey(authors[clusters[k].aliases[a]])

StatsDone == pc = "generateStats"

\* the sum of f over the finite set S
RECURSIVE sumOver(_, _)
sumOver(S, f) ==
  IF S = {} THEN 0
  ELSE LET x == CHOOSE y \in S : TRUE IN f[x] + sumOver(S \ {x}, f)

\* C14: generateStats counts the clusters and the aliases, sums the commits
\* of the aliases only, subtracts the aliases from the total, and rounds
\* the percentage of aliases in the total to the nearest integer (halves
\* up), giving 0 for a total of 0.
C14_StatsFields ==
  StatsDone =>
    LET aliasPositions == {<<k, a>> \in (1..Len(clusters)) \X (1..Len(authors)) :
                             a <= Len(clusters[k].aliases)}
        n == totalAuthorsBefore
        r == stats.reductionPercent
    IN /\ stats.clustersFound = Len(clusters)
       /\ stats.aliasesConsolidated = Cardinality(aliasPositions)
       /\ stats.commitsAffected
            = sumOver(aliasPositions,
                      [x \in aliasPositions |->
                         authors[clusters[x[1]].aliases[x[2]]].commits])
       /\ stats.authorsAfter = n - stats.aliasesConsolidated
       /\ n = 0 => r = 0
       /\ n > 0 => /\ 2 * n * r - n <= 200 * stats.aliasesConsolidated
                   /\ 200 * stats.aliasesConsolidated < 2 * n * r + n

\* two aliases among three identities: 66.67 per cent is reported as 67
C14_Witness ==
  /\ StatsDone
  /\ totalAuthorsBefore = 3
  /\ stats.aliasesConsolidated = 2
  /\ stats.reductionPercent = 67
  /\ stats.commitsAffected > 0

Selected == pc = "selectCanonical"

\* C15: selectCanonical fails with the empty-input error on an empty list;
\* on any other list it returns one of the given identities, name, email
\* and commits unchanged, and the only element of a one-element list.
C15_SelectCanonicalMember ==
  Selected =>
    /\ authors = <<>> => selected = EmptyInputError
    /\ authors # <<>> => \E p \in 1..Len(authors) : selected = authors[p]
    /\ Len(authors) = 1 => selected = authors[1]

\* the identity with the most commits is passed over for a later one
C15_Witness ==
  /\ Selected
  /\ Len(authors) >= 2
  /\ \A p \in 2..Len(authors) : authors[p].commits < authors[1].commits
  /\ selected \in Range(authors)
  /\ selected # authors[1]

(***************************************************************************)
(* Properties of scanAuthors (specification SpecScan).                     *)
(***************************************************************************)
Scanned == pc = "scanAuthors"

\* the identities the log lines carry, in log order
RECURSIVE observed(_, _)
observed(commits, includeCommitters) ==
  IF commits = <<>> THEN <<>>
  ELSE <<Head(commits).author>>
         \o (IF includeCommitters THEN <<Head(commits).committer>> ELSE <<>>)
         \o observed(Tail(commits), includeCommitters)

\* C16: scanAuthors returns exactly one record per distinct (name, email)
\* pair carried by the log lines, its commits the number of lines with that
\* pair, in order of non-increasing commits; lines with an empty name or
\* email are skipped; a repository without commits yields the empty list
\* and a path outside a repository the error 'Not a git repository'.
C16_OneRecordPerPair ==
  Scanned =>
    /\ repo.state = "missing" => thrown = NotAGitRepository
    /\ repo.state = "empty" => thrown = NoError /\ authors = <<>>
    /\ repo.state = "repository" =>
         LET obs == observed(repo.commits, repo.includeCommitters)
             kept == {k \in 1..Len(obs) :
                        obs[k].name # <<>> /\ obs[k].email # <<>>}
             linesOf(id) == {k \in kept : obs[k] = id}
         IN /\ thrown = NoError
            /\ \A k \in kept :
                 \E a \in 1..Len(authors) :
                   /\ authors[a] = [name |-> obs[k].name,
                                    email |-> obs[k].email,
                                    commits |-> Cardinality(linesOf(obs[k]))]
                   /\ \A b \in 1..Len(authors) :
                        (authors[b].name = obs[k].name
                           /\ authors[b].email = obs[k].email) => b = a
            /\ \A a \in 1..Len(authors) :
                 \E k \in kept : obs[k].name = authors[a].name
                                  /\ obs[k].email = authors[a].email
            /\ \A a \in 1..(Len(authors) - 1) :
                 authors[a].commits >= authors[a + 1].commits
            /\ sumCommits(authors, [a \in 1..Len(authors) |-> a])
                 = Cardinality(kept)

(***************************************************************************)
(* Properties of nameSimilarity (specification SpecName).                  *)
(***************************************************************************)
Scored == pc = "nameSimilarity"

\* C5: whenever either name normalizes to the empty string the score is 0.
C5_EmptyNameScoresZero ==
  Scored /\ (normalizeName(name1) = <<>> \/ normalizeName(name2) = <<>>)
    => similarity = Zero

\* C6: the score lies in [0,1]; the fixed results are 1, 0 and 0.9; the
\* token-overlap branch divides by a non-empty union and yields a value in
\* (0.8, 0.9]; the edit-distance branch is reached only with a positive
\* maximal length and a distance not above it.
C6_SimilarityInUnitInterval ==
  Scored =>
    LET n1 == normalizeName(name1)
        n2 == normalizeName(name2)
        union == Range(split(n1, " ")) \cup Range(split(n2, " "))
        maxLen == Max(Len(n1), Len(n2))
    IN /\ RLeq(Zero, similarity) /\ RLeq(similarity, One)
       /\ similarity[2] > 0
       /\ IF n1 = n2 THEN similarity = One
          ELSE IF n1 = <<>> \/ n2 = <<>> THEN similarity = Zero
          ELSE IF includes(n1, n2) \/ includes(n2, n1)
               THEN similarity = Rat(9, 10)
          ELSE /\ union # {}
               /\ IF RLt(Rat(1, 2), jaccardSim(n1, n2))
                  THEN RLt(Rat(8, 10), similarity)
                       /\ RLeq(similarity, Rat(9, 10))
                  ELSE /\ maxLen > 0
                       /\ levenshtein(n1, n2) <= maxLen
                       /\ levenshtein(n1, n2) >= 1

\* the edit-distance branch with every character substituted: distance
\* equal to the maximal length, score 0
C6_Witness ==
  /\ Scored
  /\ normalizeName(name1) # <<>> /\ normalizeName(name2) # <<>>
  /\ ~includes(normalizeName(name1), normalizeName(name2))
  /\ ~includes(normalizeName(name2), normalizeName(name1))
  /\ RLeq(jaccardSim(normalizeName(name1), normalizeName(name2)), Rat(1, 2))
  /\ levenshtein(normalizeName(name1), normalizeName(name2))
       = Max(Len(normalizeName(name1)), Len(normalizeName(name2)))
  /\ similarity = Zero

(***************************************************************************)
(* Properties of levenshtein (specification SpecLev).                      *)
(***************************************************************************)
Measured == pc = "levenshtein"

\* the strings one insertion, deletion or substitution away from s
singleEdits(s) ==
  {SubSeq(s, 1, k) \o <<c>> \o SubSeq(s, k + 1, Len(s)) :
     k \in 0..Len(s), c \in LevAlphabet}
  \cup {SubSeq(s, 1, k - 1) \o SubSeq(s, k + 1, Len(s)) : k \in 1..Len(s)}
  \cup ({[s EXCEPT ![k] = c] : k \in 1..Len(s), c \in LevAlphabet} \ {s})

\* C20: levenshtein(a, b) is the least number of single-character
\* insertions, deletions and substitutions that turn a into b: it is 0
\* exactly when a = b, symmetric, between the difference of the lengths and
\* the greater length; no single edit of a lowers it by more than 1 (so no
\* edit script is shorter) and, unless a = b, some single edit of a that is
\* no longer than the longer string lowers it by 1 (so a script of that
\* length exists).
C20_LevenshteinIsEditDistance ==
  Measured =>
    /\ distance = 0 <=> name1 = name2
    /\ distance = levenshtein(name2, name1)
    /\ Abs(Len(name1) - Len(name2)) <= distance
    /\ distance <= Max(Len(name1), Len(name2))
    /\ \A s \in singleEdits(name1) : levenshtein(s, name2) >= distance - 1
    /\ distance > 0 =>
         \E s \in singleEdits(name1) :
           /\ Len(s) <= Max(Len(name1), Len(name2))
           /\ levenshtein(s, name2) = distance - 1

\* strings of equal length that need a deletion and an insertion besides a
\* match: 'abc' and 'bca' are 2 apart, less than their length
C20_Witness ==
  /\ Measured
  /\ Len(name1) = 3 /\ Len(name2) = 3
  /\ Range(name1) = Range(name2)
  /\ \A k \in 1..3 : name1[k] # name2[k]
  /\ distance = 2

(***************************************************************************)
(* Properties of the email functions (specification SpecEmail).            *)
(***************************************************************************)
Matched == pc = "emailsMatch"

\* C7: the rules of emailsMatch in their order, first applicable rule wins;
\* match is false exactly when confidence is 0 and reason is empty.
C7_EmailRulesInOrder ==
  Matched =>
    LET e1 == toLowerCase(email1)
        e2 == toLowerCase(email2)
        l1 == emailLocal(e1)
        l2 == emailLocal(e2)
        g1 == ghMatch(e1)
        g2 == ghMatch(e2)
        exact == e1 = e2
        sameLocal == l1 = l2 /\ Len(l1) > 3
        bothNoreply == g1.matched /\ g2.matched /\ g1.username = g2.username
        oneSide == (g1.matched /\ g1.username = l2)
                     # (g2.matched /\ g2.username = l1)
    IN /\ verdict =
            IF exact THEN Verdict(TRUE, One, "exact-email")
            ELSE IF sameLocal THEN Verdict(TRUE, Rat(8, 10), "same-local-part")
            ELSE IF bothNoreply
                 THEN Verdict(TRUE, Rat(95, 100), "github-noreply-username")
            ELSE IF oneSide
                 THEN Verdict(TRUE, Rat(7, 10), "github-noreply-match")
            ELSE Verdict(FALSE, Zero, "")
       /\ (verdict.match = FALSE)
            <=> (verdict.confidence = Zero /\ verdict.reason = "")

\* the same-local-part rule wins although the noreply-versus-local rule
\* applies as well
C7_Witness ==
  /\ Matched
  /\ verdict.reason = "same-local-part"
  /\ \/ /\ ghMatch(toLowerCase(email1)).matched
        /\ ghMatch(toLowerCase(email1)).username = emailLocal(email2)
     \/ /\ ghMatch(toLowerCase(email2)).matched
        /\ ghMatch(toLowerCase(email2)).username = emailLocal(email1)

\* C8: emailsMatch gives the same verdict for both orders of its arguments.
C8_EmailsMatchSymmetric ==
  Matched => verdict = emailsMatch(email2, email1)

\* only the second email is a noreply address, and its username is the
\* first email's local part
C8_Witness ==
  /\ Matched
  /\ verdict.reason = "github-noreply-match"
  /\ ~ghMatch(toLowerCase(email1)).matched
  /\ ghMatch(toLowerCase(email2)).matched

\* C9: emailDomain is the lowercased text after the first '@' (all of it)
\* or empty without '@'; emailLocal is the lowercased text before the first
\* '@', or the whole lowercased string without '@'.
C9_EmailPartsAroundFirstAt ==
  pc = "emailParts" =>
    LET at == indexOfChar(email1, "@")
    IN /\ localPart = toLowerCase(IF at = 0 THEN email1
                                  ELSE SubSeq(email1, 1, at - 1))
       /\ domainPart = toLowerCase(IF at = 0 THEN <<>>
                                   ELSE SubSeq(email1, at + 1, Len(email1)))


(***************************************************************************)
(* Properties of the apply command (specification SpecApply).              *)
(***************************************************************************)
Exited == pc = "exit"

ApplyRunning == pc \in {"applyScan", "applyCluster", "applyWrite", "exit"}

\* the file a value returned by getExistingMailmap was read from
fileRead(value) == IF value.isNull THEN NoFile ELSE File(value.text)

\* the .mailmap file is as it was when the command read it
MailmapUnchanged == mailmapFile = fileRead(existingMailmap)

\* C23: apply writes .mailmap only after a scan that found at least one
\* author and a findClusters run that returned at least one cluster; with
\* no commits found it exits with code 1, with no clusters found with code
\* 0, and in both cases the .mailmap is left as it was.
C23_ApplyWritesOnlyWithClusters ==
  ApplyRunning =>
    /\ ~MailmapUnchanged =>
         /\ Exited /\ exitCode = 0 /\ thrown = NoError
         /\ Len(authors) >= 1 /\ Len(clusters) >= 1
         /\ mailmapFile = File(content)
    /\ (Exited /\ thrown = NoError /\ authors = <<>>) =>
         /\ exitCode = 1 /\ MailmapUnchanged
         /\ console[Len(console)] = NoCommitsMessage
    /\ (Exited /\ authors # <<>> /\ clusters = <<>>) =>
         /\ exitCode = 0 /\ MailmapUnchanged
         /\ console[Len(console)] = NoClustersMessage

\* the warning was printed for an existing file, no cluster was found, and
\* the command has exited with code 0 and the file as it was
C23_Witness ==
  /\ Exited /\ exitCode = 0
  /\ authors # <<>> /\ clusters = <<>>
  /\ console = <<OverwriteWarning, NoClustersMessage>>
  /\ mailmapFile = File(OldMailmap)

=============================================================================
